---- MODULE Spec2Model ----
(***************************************************************************)
(* A model of the legacy fact extractors of cisco.ios                      *)
(* (plugins/module_utils/network/ios/facts/legacy/base.py).                *)
(*                                                                         *)
(* Text is a sequence of tokens.  A token is an indivisible piece of text: *)
(* one white-space character (" ", "\t", "\n"), one decimal digit, one     *)
(* punctuation mark, a separator line of dashes, or a word.  Python's      *)
(* regular expressions are interpreted over tokens by the matcher M below, *)
(* which tries the ways a pattern can match in the order a backtracking    *)
(* matcher tries them, so that greedy repetition and the first match are   *)
(* those of the re module.                                                 *)
(*                                                                         *)
(* Modelled: Interfaces, Hardware and Config.  Each populate is a state    *)
(* machine with one step for each of its sections; parse_interfaces and    *)
(* parse_neighbors are also run on texts of their own.                     *)
(***************************************************************************)
EXTENDS Integers, Sequences, FiniteSets, TLC

VARIABLES
  pc,         \* where the running populate (or the call under study) stands
  exc,        \* the exception that ended it: None, or Some(name)
  responses,  \* self.responses
  facts,      \* self.facts
  warnings,   \* the warnings list of the running populate
  issued,     \* the commands handed to run_commands so far
  answers,    \* what self.run returned for the commands issued one by one
  input,      \* the argument of the call under study
  output      \* what it returned

vars == <<pc, exc, responses, facts, warnings, issued, answers, input, output>>

-----------------------------------------------------------------------------
(* Tokens and character classes *)

NL == "\n"
SP == " "
TAB == "\t"

Digits == <<"0", "1", "2", "3", "4", "5", "6", "7", "8", "9">>

IsSpace(t) == t \in {SP, TAB, NL}
IsDigit(t) == \E d \in 1..10 : Digits[d] = t
Punct == {",", ":", ";", "%", "/", "(", ")", ".", "\""}
IsWord(t) == ~IsSpace(t) /\ t \notin Punct

\* Option values: None, or a one-element sequence holding the value.
None == <<>>
Some(x) == <<x>>

\* The empty dict, and dict[k] = v on a dict held as a function.
EmptyDict == [k \in {} |-> k]
Put(d, k, v) == (k :> v) @@ d

-----------------------------------------------------------------------------
(* Pattern constructors: the syntax of the re module *)

Lit(ts) == [k |-> "lit", v |-> ts]
Cls(c) == [k |-> "cls", v |-> c]
Cat(rs) == [k |-> "cat", v |-> rs]
Star(r) == [k |-> "star", v |-> r]
Plus(r) == [k |-> "cat", v |-> <<r, [k |-> "star", v |-> r]>>]
Opt(r) == [k |-> "opt", v |-> r]
Alt(rs) == [k |-> "alt", v |-> rs]
Grp(n, r) == [k |-> "grp", n |-> n, v |-> r]
Bol == [k |-> "bol"]
Eol == [k |-> "eol"]

InClass(c, t) ==
  CASE c = "." -> t # NL
    [] c = "s" -> IsSpace(t)
    [] c = "S" -> ~IsSpace(t)
    [] c = "d" -> IsDigit(t)
    [] c = "w" -> IsWord(t)
    [] c = "^s" -> ~IsSpace(t)

\* M(todo, s, st, ml): the backtracking matcher.  todo is the sequence of
\* patterns still to be matched, in order, from the state st = [i |-> next
\* position, c |-> the groups closed so far]; the result is
\* None or Some(state) of the first way, in the order the re module tries
\* them, in which all of todo matches.  ml is the MULTILINE flag.
RECURSIVE M(_, _, _, _)
M(todo, s, st, ml) ==
  IF todo = <<>> THEN Some(st)
  ELSE
  LET re == Head(todo)
      rest == Tail(todo)
      i == st.i
  IN
  CASE re.k = "lit" ->
         IF i + Len(re.v) - 1 <= Len(s) /\ SubSeq(s, i, i + Len(re.v) - 1) = re.v
         THEN M(rest, s, [st EXCEPT !.i = i + Len(re.v)], ml) ELSE None
    [] re.k = "cls" ->
         IF i <= Len(s) /\ InClass(re.v, s[i])
         THEN M(rest, s, [st EXCEPT !.i = i + 1], ml) ELSE None
    [] re.k = "bol" ->
         IF i = 1 \/ (ml /\ s[i - 1] = NL) THEN M(rest, s, st, ml) ELSE None
    [] re.k = "eol" ->
         IF i = Len(s) + 1 \/ (i = Len(s) /\ s[i] = NL) \/ (ml /\ i <= Len(s) /\ s[i] = NL)
         THEN M(rest, s, st, ml) ELSE None
    [] re.k = "cat" -> M(re.v \o rest, s, st, ml)
    [] re.k = "alt" ->
         IF re.v = <<>> THEN None
         ELSE LET r == M(<<Head(re.v)>> \o rest, s, st, ml)
              IN IF r # None THEN r ELSE M(<<[k |-> "alt", v |-> Tail(re.v)]>> \o rest, s, st, ml)
    [] re.k = "opt" ->
         LET r == M(<<re.v>> \o rest, s, st, ml)
         IN IF r # None THEN r ELSE M(rest, s, st, ml)
    [] re.k = "star" /\ re.v.k = "cls" ->
         \* the same, for the repetition of one class
         LET r == IF i <= Len(s) /\ InClass(re.v.v, s[i])
                  THEN M(todo, s, [st EXCEPT !.i = i + 1], ml) ELSE None
         IN IF r # None THEN r ELSE M(rest, s, st, ml)
    [] re.k = "star" ->
         \* one more round, which must consume something, before the rest
         LET r == M(<<re.v, [k |-> "moved", v |-> i], re>> \o rest, s, st, ml)
         IN IF r # None THEN r ELSE M(rest, s, st, ml)
    [] re.k = "moved" -> IF i > re.v THEN M(rest, s, st, ml) ELSE None
    [] re.k = "grp" ->
         M(<<re.v, [k |-> "end", n |-> re.n, v |-> i]>> \o rest, s, st, ml)
    [] re.k = "end" ->
         M(rest, s, [st EXCEPT !.c = Put(@, re.n, Some(SubSeq(s, re.v, i - 1)))], ml)

\* A match object: None, or Some([from, to, c]) with c the groups that took part.
MatchObject(r, i) ==
  IF r = None THEN None ELSE Some([from |-> i, to |-> r[1].i, c |-> r[1].c])

MatchAt(re, s, i, ml) == MatchObject(M(<<re>>, s, [i |-> i, c |-> EmptyDict], ml), i)

\* re.match(re, s)
ReMatch(re, s, ml) == MatchAt(re, s, 1, ml)

\* The positions of s at which a match of re can begin, judged by the first
\* thing re asks for (every position when that cannot be told).
RECURSIVE Starts(_, _, _)
Starts(re, s, ml) ==
  CASE re.k = "lit" /\ re.v # <<>> -> {i \in 1..Len(s) : s[i] = re.v[1]}
    [] re.k = "cls" -> {i \in 1..Len(s) : InClass(re.v, s[i])}
    [] re.k = "bol" -> {1} \cup (IF ml THEN {i + 1 : i \in {j \in 1..Len(s) : s[j] = NL}} ELSE {})
    [] re.k = "grp" -> Starts(re.v, s, ml)
    [] re.k = "cat" /\ re.v # <<>> ->
         IF Head(re.v).k = "bol"
         THEN Starts(Head(re.v), s, ml) \cap Starts([k |-> "cat", v |-> Tail(re.v)], s, ml)
         ELSE Starts(Head(re.v), s, ml)
    [] OTHER -> 1..(Len(s) + 1)

\* The match of re at every position where one can begin.
MatchTable(re, s, ml) == [i \in Starts(re, s, ml) |-> MatchAt(re, s, i, ml)]

\* The leftmost match in the table t from position p on.
Least(ps) == CHOOSE i \in ps : \A j \in ps : i <= j
FirstOf(t, hits) == IF hits = {} THEN None ELSE t[Least(hits)]
Leftmost(t, p) == FirstOf(t, {i \in DOMAIN t : i >= p /\ t[i] # None})

\* re.search(re, s)
ReSearch(re, s, ml) == Leftmost(MatchTable(re, s, ml), 1)

\* match.group(n): None when the group took no part in the match.
Group(m, n) == IF n \in DOMAIN m[1].c THEN m[1].c[n] ELSE None

\* "if match: return match.group(n)", else None
GroupIf(match, n) == IF match # None THEN Group(match, n) ELSE None

\* The non-overlapping matches of re in s, left to right (re.findall, re.sub):
\* each search begins where the match before it ended.
After(m) == IF m[1].to > m[1].from THEN m[1].to ELSE m[1].to + 1

RECURSIVE NextMatches(_, _, _)
NextMatches(t, m, last) ==
  IF m = None THEN <<>>
  ELSE <<m>> \o (IF After(m) > last THEN <<>> ELSE NextMatches(t, Leftmost(t, After(m)), last))

FromTable(t, last) == NextMatches(t, Leftmost(t, 1), last)
Matches(re, s, ml) == FromTable(MatchTable(re, s, ml), Len(s) + 1)

\* re.findall for a pattern with one group: the group of every match.
GroupsOf(ms, n) ==
  [j \in 1..Len(ms) |-> IF Group(ms[j], n) = None THEN <<>> ELSE Group(ms[j], n)[1]]
FindAll(re, s, n, ml) == GroupsOf(Matches(re, s, ml), n)

\* re.sub(re, "", s): s without its matches.
RECURSIVE Cut(_, _, _)
Cut(s, ms, p) ==
  IF ms = <<>> THEN SubSeq(s, p, Len(s))
  ELSE SubSeq(s, p, Head(ms)[1].from - 1) \o Cut(s, Tail(ms), Head(ms)[1].to)

ReSubEmpty(re, s, ml) == Cut(s, Matches(re, s, ml), 1)

\* sub in s
Contains(s, sub) ==
  \E i \in 1..(Len(s) - Len(sub) + 1) : SubSeq(s, i, i + Len(sub) - 1) = sub

\* s.split(sep) for a separator of one token.
Split(s, sep) ==
  LET pos == {i \in 1..Len(s) : s[i] = sep}
      n == Cardinality(pos)
      P(j) == IF j = 0 THEN 0
              ELSE IF j = n + 1 THEN Len(s) + 1
              ELSE CHOOSE i \in pos : Cardinality({q \in pos : q < i}) = j - 1
  IN [j \in 1..(n + 1) |-> SubSeq(s, P(j - 1) + 1, P(j) - 1)]

\* s.splitlines(): split on line ends, no empty last piece.
DropEmptyLast(ps) == IF ps[Len(ps)] = <<>> THEN SubSeq(ps, 1, Len(ps) - 1) ELSE ps
SplitLines(s) == DropEmptyLast(Split(s, NL))

\* s.strip(), s.lstrip()
RECURSIVE LStrip(_)
LStrip(s) == IF s # <<>> /\ IsSpace(Head(s)) THEN LStrip(Tail(s)) ELSE s
RECURSIVE RStrip(_)
RStrip(s) == IF s # <<>> /\ IsSpace(s[Len(s)]) THEN RStrip(SubSeq(s, 1, Len(s) - 1)) ELSE s
Strip(s) == RStrip(LStrip(s))

\* int(s) for a run of digits
DigitVal(t) == (CHOOSE d \in 1..10 : Digits[d] = t) - 1
RECURSIVE ToInt(_)
ToInt(s) == IF s = <<>> THEN 0 ELSE 10 * ToInt(SubSeq(s, 1, Len(s) - 1)) + DigitVal(s[Len(s)])

\* The text of words separated by single spaces.
RECURSIVE Words(_)
Words(ws) == IF Len(ws) <= 1 THEN ws ELSE <<Head(ws), SP>> \o Words(Tail(ws))

\* "\n".join(lines)
RECURSIVE JoinWith(_, _)
JoinWith(lines, sep) ==
  IF lines = <<>> THEN <<>>
  ELSE IF Len(lines) = 1 THEN lines[1]
  ELSE lines[1] \o <<sep>> \o JoinWith(Tail(lines), sep)

-----------------------------------------------------------------------------
(* Python dicts that are iterated: key/value pairs in insertion order *)

OHas(d, key) == \E n \in 1..Len(d) : d[n].k = key
OGet(d, key) == d[CHOOSE n \in 1..Len(d) : d[n].k = key].v
OSet(d, key, val) ==
  IF OHas(d, key)
  THEN [n \in 1..Len(d) |-> IF d[n].k = key THEN [k |-> key, v |-> val] ELSE d[n]]
  ELSE Append(d, [k |-> key, v |-> val])
OKeys(d) == {d[n].k : n \in 1..Len(d)}

\* An update that would keep the entries already there.
OUpdateKeep(d, e) == d \o SelectSeq(e, LAMBDA x : ~OHas(d, x.k))

\* d.update(e)
RECURSIVE OUpdate(_, _)
OUpdate(d, e) == IF e = <<>> THEN d ELSE OUpdate(OSet(d, Head(e).k, Head(e).v), Tail(e))

\* The outcome of a call that may raise: the exception (None when it returned)
\* and the value or the state it left.
Ok(v) == [exc |-> None, val |-> v]
Raise(e, v) == [exc |-> Some(e), val |-> v]

-----------------------------------------------------------------------------
(* Interfaces: the block parser *)

\* The branches of the loop body, and the loop: st is [parsed, key], or the
\* outcome that ended the loop.
\* A continuation that would be appended without its leading white space.
continuation_line_stripped(st, line) ==
  IF ~OHas(st.parsed, st.key) THEN Raise("KeyError", st.parsed)
  ELSE [st EXCEPT !.parsed = OSet(@, st.key, OGet(@, st.key) \o <<NL>> \o LStrip(line))]

continuation_line(st, line) ==
  IF ~OHas(st.parsed, st.key) THEN Raise("KeyError", st.parsed)
  ELSE [st EXCEPT !.parsed = OSet(@, st.key, OGet(@, st.key) \o <<NL>> \o line)]

key_line(st, line, match) ==
  IF match # None
  THEN [parsed |-> OSet(st.parsed, Group(match, "1")[1], line), key |-> Group(match, "1")[1]]
  ELSE st

RECURSIVE parse_interfaces_loop(_, _)
parse_interfaces_loop(lines, st) ==
  IF "exc" \in DOMAIN st THEN st
  ELSE IF lines = <<>> THEN Ok(st.parsed)
  ELSE parse_interfaces_loop(
         Tail(lines),
         IF Len(Head(lines)) = 0 THEN st
         ELSE IF Head(lines)[1] = SP THEN continuation_line(st, Head(lines))
         ELSE key_line(st, Head(lines),
                       ReMatch(Cat(<<Bol, Grp("1", Plus(Cls("S")))>>), Head(lines), FALSE)))

parse_interfaces(data) == parse_interfaces_loop(Split(data, NL), [parsed |-> <<>>, key |-> <<>>])

-----------------------------------------------------------------------------
(* Interfaces: the attribute parsers; each returns None or Some(value) *)

Dot == Cls(".")

\* "if match: return int(match.group(1))"
IntIf(match) == IF match # None THEN Some(ToInt(Group(match, "1")[1])) ELSE None
\* "if match: return match.group(1).lstrip()"
LStripIf(match) == IF match # None THEN Some(LStrip(Group(match, "1")[1])) ELSE None
\* "if match: return match.group(1), match.group(2)"
PairIf(match) ==
  IF match # None THEN Some(<<Group(match, "1")[1], Group(match, "2")[1]>>) ELSE None

parse_description(data) ==
  GroupIf(ReSearch(Cat(<<Lit(<<"Description", ":", SP>>), Grp("1", Plus(Dot)), Eol>>),
                   data, TRUE), "1")

parse_macaddress(data) ==
  GroupIf(ReSearch(Cat(<<Lit(<<"Hardware", SP, "is", SP>>), Star(Dot),
                         Lit(<<",", SP, "address", SP, "is", SP>>),
                         Grp("1", Plus(Cls("S")))>>), data, FALSE), "1")

parse_mtu(data) ==
  IntIf(ReSearch(Cat(<<Lit(<<"MTU", SP>>), Grp("1", Plus(Cls("d")))>>), data, FALSE))

parse_bandwidth(data) ==
  IntIf(ReSearch(Cat(<<Lit(<<"BW", SP>>), Grp("1", Plus(Cls("d")))>>), data, FALSE))

parse_duplex(data) ==
  GroupIf(ReSearch(Cat(<<Grp("1", Plus(Cls("w"))), Lit(<<SP, "Duplex">>)>>), data, TRUE), "1")

parse_mediatype(data) ==
  GroupIf(ReSearch(Cat(<<Lit(<<"media", SP, "type", SP, "is", SP>>),
                         Grp("1", Plus(Dot)), Eol>>), data, TRUE), "1")

parse_type(data) ==
  GroupIf(ReSearch(Cat(<<Lit(<<"Hardware", SP, "is", SP>>), Grp("1", Plus(Dot)),
                         Lit(<<",">>)>>), data, TRUE), "1")

parse_lineprotocol(data) ==
  GroupIf(ReSearch(Cat(<<Lit(<<"line", SP, "protocol", SP, "is", SP>>),
                         Grp("1", Alt(<<Lit(<<"up">>), Lit(<<"down">>)>>)),
                         Opt(Grp("2", Plus(Dot))), Eol>>), data, TRUE), "1")

parse_operstatus(data) ==
  LStripIf(ReSearch(Cat(<<Bol, Plus(Dot), Lit(<<SP, "is", SP>>), Grp("1", Plus(Dot)),
                          Lit(<<",">>)>>), data, TRUE))

\* One interface record of populate_interfaces.
interface_record(value) ==
  [description |-> parse_description(value),
   macaddress |-> parse_macaddress(value),
   mtu |-> parse_mtu(value),
   bandwidth |-> parse_bandwidth(value),
   mediatype |-> parse_mediatype(value),
   duplex |-> parse_duplex(value),
   lineprotocol |-> parse_lineprotocol(value),
   operstatus |-> parse_operstatus(value),
   type |-> parse_type(value)]

populate_interfaces(interfaces) ==
  [n \in 1..Len(interfaces) |->
     [k |-> interfaces[n].k, v |-> interface_record(interfaces[n].v)]]

-----------------------------------------------------------------------------
(* Interfaces: the address passes.  fs is self.facts. *)

\* An add_ip_address that would record nothing.
add_ip_address_nowhere(fs, address, family) == fs

add_ip_address(fs, address, family) ==
  IF family = "ipv4"
  THEN [fs EXCEPT !["all_ipv4_addresses"] = Append(@, address)]
  ELSE [fs EXCEPT !["all_ipv6_addresses"] = Append(@, address)]

\* self.facts["interfaces"][key][attr] = val, the record being there.
set_attr(fs, key, attr, val) ==
  [fs EXCEPT !["interfaces"] = OSet(@, key, Put(OGet(@, key), attr, val))]

\* A back-fill that would copy whatever status was parsed.
set_any_status(fs, interface, status) ==
  IF status # None THEN set_attr(fs, interface, "operstatus", status) ELSE fs

set_deleted(fs, interface, status) ==
  IF status = Some(<<"deleted">>) THEN set_attr(fs, interface, "operstatus", status) ELSE fs

parse_deleted_status(fs, interface, value) ==
  set_deleted(fs, interface, parse_operstatus(value))

\* The try/except that opens both passes: the family's list is reset on the
\* record of key, the record being created when the KeyError is caught; the
\* handler's own first statement raises KeyError when there is no
\* "interfaces" fact at all.
open_record(fs, key, value, family) ==
  IF "interfaces" \in DOMAIN fs /\ OHas(fs["interfaces"], key)
  THEN Ok(set_attr(fs, key, family, <<>>))
  ELSE IF "interfaces" \notin DOMAIN fs THEN Raise("KeyError", fs)
  ELSE Ok(parse_deleted_status(
            [fs EXCEPT !["interfaces"] = OSet(@, key, Put(EmptyDict, family, <<>>))],
            key, value))

\* self.facts["interfaces"][key][family].append(entry)
append_address(fs, key, family, entry) ==
  set_attr(fs, key, family, Append(OGet(fs["interfaces"], key)[family], entry))

\* The body of "for address in addresses": parts is address.split("/"), and
\* the two-name unpacking raises ValueError unless there are two parts.
ipv4_address(fs, key, parts) ==
  IF Len(parts) # 2 THEN Raise("ValueError", fs)
  ELSE Ok(append_address(add_ip_address(fs, Strip(parts[1]), "ipv4"), key, "ipv4",
                         [address |-> Strip(parts[1]), subnet |-> Strip(parts[2])]))

RECURSIVE ipv4_addresses_loop(_, _, _)
ipv4_addresses_loop(r, key, addresses) ==
  IF r.exc # None \/ addresses = <<>> THEN r
  ELSE ipv4_addresses_loop(ipv4_address(r.val, key, Split(Head(addresses), "/")),
                           key, Tail(addresses))

\* "if len(primary_address) == 0: continue", else the addresses are walked
\* with the primary one appended last.
ipv4_addresses(opened, key, primary_address, addresses) ==
  IF Len(primary_address) = 0 THEN opened
  ELSE ipv4_addresses_loop(opened, key, Append(addresses, primary_address[1]))

ipv4_opened(opened, key, value) ==
  IF opened.exc # None THEN opened
  ELSE ipv4_addresses(
         opened, key,
         FindAll(Cat(<<Lit(<<"Internet", SP, "address", SP, "is", SP>>),
                       Grp("1", Plus(Dot)), Eol>>), value, "1", TRUE),
         FindAll(Cat(<<Lit(<<"Secondary", SP, "address", SP>>),
                       Grp("1", Plus(Dot)), Eol>>), value, "1", TRUE))

\* One pass of the loop of populate_ipv4_interfaces.
ipv4_block(fs, key, value) == ipv4_opened(open_record(fs, key, value, "ipv4"), key, value)

RECURSIVE ipv4_blocks_loop(_, _)
ipv4_blocks_loop(r, data) ==
  IF r.exc # None \/ data = <<>> THEN r
  ELSE ipv4_blocks_loop(ipv4_block(r.val, Head(data).k, Head(data).v), Tail(data))

populate_ipv4_interfaces(fs, data) == ipv4_blocks_loop(Ok(fs), data)

Min(a, b) == IF a <= b THEN a ELSE b

\* zip(addresses, subnets)
Zip(a, b) == [n \in 1..Min(Len(a), Len(b)) |-> <<a[n], b[n]>>]

\* for addr, subnet in zip(addresses, subnets): ...
RECURSIVE ipv6_addresses_loop(_, _, _)
ipv6_addresses_loop(fs, key, pairs) ==
  IF pairs = <<>> THEN fs
  ELSE ipv6_addresses_loop(
         append_address(add_ip_address(fs, Strip(Head(pairs)[1]), "ipv6"), key, "ipv6",
                        [address |-> Strip(Head(pairs)[1]), subnet |-> Strip(Head(pairs)[2])]),
         key, Tail(pairs))

ipv6_opened(opened, key, value) ==
  IF opened.exc # None THEN opened
  ELSE Ok(ipv6_addresses_loop(
            opened.val, key,
            Zip(FindAll(Cat(<<Plus(Cls("s")), Grp("1", Plus(Dot)), Lit(<<",", SP, "subnet">>)>>),
                        value, "1", TRUE),
                FindAll(Cat(<<Lit(<<",", SP, "subnet", SP, "is", SP>>),
                              Grp("1", Plus(Dot)), Eol>>), value, "1", TRUE))))

\* One pass of the loop of populate_ipv6_interfaces.
ipv6_block(fs, key, value) == ipv6_opened(open_record(fs, key, value, "ipv6"), key, value)

RECURSIVE ipv6_blocks_loop(_, _)
ipv6_blocks_loop(r, data) ==
  IF r.exc # None \/ data = <<>> THEN r
  ELSE ipv6_blocks_loop(ipv6_block(r.val, Head(data).k, Head(data).v), Tail(data))

populate_ipv6_interfaces(fs, data) == ipv6_blocks_loop(Ok(fs), data)

-----------------------------------------------------------------------------
(* Interfaces: the neighbor parsers *)

DASH48 == "------------------------------------------------"
DASH25 == "-------------------------"

parse_lldp_intf(data) ==
  GroupIf(ReSearch(Cat(<<Bol, Lit(<<"Local", SP, "Intf", ":", SP>>),
                         Grp("1", Plus(Dot)), Eol>>), data, TRUE), "1")

parse_lldp_host(data) ==
  GroupIf(ReSearch(Cat(<<Lit(<<"System", SP, "Name", ":", SP>>),
                         Grp("1", Plus(Dot)), Eol>>), data, TRUE), "1")

parse_lldp_port(data) ==
  GroupIf(ReSearch(Cat(<<Lit(<<"Port", SP, "id", ":", SP>>),
                         Grp("1", Plus(Dot)), Eol>>), data, TRUE), "1")

parse_lldp_ip(data) ==
  GroupIf(ReSearch(Cat(<<Bol, Lit(<<SP, SP, SP, SP, "IP", ":", SP>>),
                         Grp("1", Plus(Dot)), Eol>>), data, TRUE), "1")

\* The external helper normalize_interface: the abbreviated prefix of an
\* interface name is expanded, any other name is returned as it is.
normalize_interface(name) ==
  IF name = <<>> THEN name
  ELSE CASE Head(name) = "Gi" -> <<"GigabitEthernet">> \o Tail(name)
         [] Head(name) = "Te" -> <<"TenGigabitEthernet">> \o Tail(name)
         [] Head(name) = "Fa" -> <<"FastEthernet">> \o Tail(name)
         [] OTHER -> name

\* facts[intf].append(fact), the list being created when intf is new.
append_fact(fs, intf, fact) ==
  OSet(fs, intf, Append(IF OHas(fs, intf) THEN OGet(fs, intf) ELSE <<>>, fact))

\* One entry of parse_neighbors whose interface name intf was found.
lldp_entry(fs, entry, intf) ==
  append_fact(fs, normalize_interface(intf[1]),
              [host |-> parse_lldp_host(entry),
               port |-> parse_lldp_port(entry),
               ip |-> parse_lldp_ip(entry)])

\* The loop of parse_neighbors from the entry on: intf is what
\* parse_lldp_intf found in it, and "return facts" ends the walk when it is None.
RECURSIVE parse_neighbors_loop(_, _)

\* A walk that would pass over an entry with no interface name and go on.
lldp_entry_skipped(entries, fs, intf) ==
  IF intf = None THEN parse_neighbors_loop(Tail(entries), fs)
  ELSE parse_neighbors_loop(Tail(entries), lldp_entry(fs, Head(entries), intf))

lldp_entry_on(entries, fs, intf) ==
  IF intf = None THEN fs
  ELSE parse_neighbors_loop(Tail(entries), lldp_entry(fs, Head(entries), intf))

parse_neighbors_loop(entries, fs) ==
  IF entries = <<>> THEN fs
  ELSE IF Head(entries) = <<>> THEN parse_neighbors_loop(Tail(entries), fs)
  ELSE lldp_entry_on(entries, fs, parse_lldp_intf(Head(entries)))

parse_neighbors(neighbors) == parse_neighbors_loop(Split(neighbors, DASH48), <<>>)

parse_cdp_intf_port(data) ==
  PairIf(ReSearch(Cat(<<Bol, Lit(<<"Interface", ":", SP>>), Grp("1", Plus(Dot)),
                        Lit(<<",", SP, SP, "Port", SP, "ID", SP, "(", "outgoing", SP,
                              "port", ")", ":", SP>>),
                        Grp("2", Plus(Dot)), Eol>>), data, TRUE))

parse_cdp_host(data) ==
  GroupIf(ReSearch(Cat(<<Bol, Lit(<<"Device", SP, "ID", ":", SP>>),
                         Grp("1", Plus(Dot)), Eol>>), data, TRUE), "1")

parse_cdp_platform(data) ==
  GroupIf(ReSearch(Cat(<<Bol, Lit(<<"Platform", ":", SP>>), Grp("1", Plus(Dot)),
                         Lit(<<",">>)>>), data, TRUE), "1")

parse_cdp_ip(data) ==
  GroupIf(ReSearch(Cat(<<Bol, Lit(<<SP, SP, "IP", SP, "address", ":", SP>>),
                         Grp("1", Plus(Dot)), Eol>>), data, TRUE), "1")

\* One entry of parse_cdp_neighbors whose interface and port were found.
cdp_entry(fs, entry, intf_port) ==
  append_fact(fs, intf_port[1][1],
              [host |-> parse_cdp_host(entry),
               platform |-> parse_cdp_platform(entry),
               port |-> intf_port[1][2],
               ip |-> parse_cdp_ip(entry)])

RECURSIVE parse_cdp_neighbors_loop(_, _)
cdp_entry_on(entries, fs, intf_port) ==
  IF intf_port = None THEN fs
  ELSE parse_cdp_neighbors_loop(Tail(entries), cdp_entry(fs, Head(entries), intf_port))

parse_cdp_neighbors_loop(entries, fs) ==
  IF entries = <<>> THEN fs
  ELSE IF Head(entries) = <<>> THEN parse_cdp_neighbors_loop(Tail(entries), fs)
  ELSE cdp_entry_on(entries, fs, parse_cdp_intf_port(Head(entries)))

parse_cdp_neighbors(neighbors) == parse_cdp_neighbors_loop(Split(neighbors, DASH25), <<>>)

-----------------------------------------------------------------------------
(* Device output the runs are checked on *)

\* The decimal text of a natural number.
RECURSIVE Dec(_)
Dec(n) == IF n < 10 THEN <<Digits[n + 1]>> ELSE Dec(n \div 10) \o <<Digits[(n % 10) + 1]>>

Lines(ls) == JoinWith(ls, NL)

StatusLine(name, status, proto) ==
  <<name, SP, "is", SP>> \o Words(status) \o <<",", SP>>
    \o Words(<<"line", "protocol", "is", proto>>)

\* What a device answers to a command it rejects: the caret line comes first.
InvalidInput ==
  Lines(<<<<SP, SP, SP, "^">>,
          <<"%", SP>> \o Words(<<"Invalid", "input", "detected", "at", "marker">>) \o <<".">>>>)

\* show interfaces
IfGi ==
  Lines(<<StatusLine("GigabitEthernet0/1", <<"up">>, "up"),
          <<SP, SP>> \o Words(<<"Hardware", "is", "iGbE">>) \o <<",", SP>>
            \o Words(<<"address", "is", "5e00.0003.0000">>),
          <<SP, SP, "Description", ":", SP>> \o Words(<<"to", "core">>),
          <<SP, SP, "MTU", SP>> \o Dec(1500) \o <<SP, "bytes", ",", SP, "BW", SP>>
            \o Dec(1000) \o <<SP, "Kbit/sec">>,
          <<SP, SP>> \o Words(<<"Full", "Duplex">>) \o <<",", SP>>
            \o Words(<<"media", "type", "is", "RJ45">>)>>)

IfLo ==
  Lines(<<StatusLine("Loopback0", <<"administratively", "down">>, "down"),
          <<>>,
          <<SP, SP>> \o Words(<<"Hardware", "is", "Loopback">>),
          <<SP, SP, "MTU", SP>> \o Dec(1514) \o <<SP, "bytes">>>>)

ShowInterfacesOk == {IfGi, Lines(<<IfLo, <<>>, IfGi>>)}
ShowInterfaces == {<<>>, InvalidInput} \cup ShowInterfacesOk

\* show ip interface
Ip4Line(kind, addr, len) ==
  <<SP, SP>> \o (IF kind = "primary" THEN Words(<<"Internet", "address", "is">>)
                 ELSE Words(<<"Secondary", "address">>)) \o <<SP, addr, "/", len>>

Ip4Gi ==
  Lines(<<StatusLine("GigabitEthernet0/1", <<"up">>, "up"),
          Ip4Line("primary", "10.0.0.1", "24"),
          Ip4Line("secondary", "10.0.1.1", "25")>>)
Ip4VlanDeleted ==
  Lines(<<StatusLine("Vlan1", <<"deleted">>, "down"), Ip4Line("primary", "10.0.0.1", "24")>>)
Ip4VlanSecondaryOnly ==
  Lines(<<StatusLine("Vlan1", <<"up">>, "down"), Ip4Line("secondary", "10.0.2.1", "24")>>)
\* an address with no prefix length
Ip4NoSlash ==
  Lines(<<StatusLine("Tunnel0", <<"up">>, "up"),
          <<SP, SP>> \o Words(<<"Internet", "address", "is", "negotiated">>)>>)

Ip4BlocksOk == <<Ip4Gi, Ip4VlanDeleted, Ip4VlanSecondaryOnly>>
Ip4Blocks == Ip4BlocksOk \o <<Ip4NoSlash>>

\* The texts of 1 to MaxBlocks blocks.
MaxBlocks == 2
RECURSIVE BlockTexts(_, _)
BlockTexts(blocks, n) ==
  IF n = 0 THEN {}
  ELSE {blocks[b] : b \in 1..Len(blocks)}
       \cup {t \o <<NL>> \o blocks[b] : t \in BlockTexts(blocks, n - 1), b \in 1..Len(blocks)}

ShowIpInterfaceOk == BlockTexts(Ip4BlocksOk, MaxBlocks)
ShowIpInterface == {<<>>, InvalidInput} \cup BlockTexts(Ip4Blocks, MaxBlocks)

\* show ipv6 interface
Ip6Line(addr, prefix) ==
  <<SP, SP, addr, ",", SP>> \o Words(<<"subnet", "is", prefix>>)

Ip6Gi ==
  Lines(<<StatusLine("GigabitEthernet0/1", <<"up">>, "up"),
          Ip6Line("2001:DB8::1", "2001:DB8::/64"),
          Ip6Line("2001:DB8:1::1", "2001:DB8:1::/64")>>)
Ip6Vlan ==
  Lines(<<StatusLine("Vlan1", <<"up">>, "up"), Ip6Line("2001:DB8::1", "2001:DB8::/64")>>)
Ip6LoDeleted ==
  Lines(<<StatusLine("Loopback9", <<"deleted">>, "down"),
          Ip6Line("2001:DB8:9::1", "2001:DB8:9::/64")>>)

ShowIpv6InterfaceOk == {Ip6Gi, Lines(<<Ip6Vlan, Ip6LoDeleted>>)}
ShowIpv6Interface == {<<>>} \cup ShowIpv6InterfaceOk

\* show lldp, show cdp
LldpActive == Words(<<"Global", "LLDP", "Information">>) \o <<":", NL, SP, SP, SP, SP>>
                \o <<"Status", ":", SP, "ACTIVE">>
LldpNotEnabled == <<"%", SP>> \o Words(<<"LLDP", "is", "not", "enabled">>)
ShowLldpOk == {LldpActive}
ShowLldp == {<<>>, InvalidInput, LldpNotEnabled} \cup ShowLldpOk

CdpActive == Words(<<"Global", "CDP", "information">>) \o <<":">>
CdpNotEnabled == <<"%", SP>> \o Words(<<"CDP", "is", "not", "enabled">>)
ShowCdpOk == {CdpActive}
ShowCdp == {<<>>, CdpNotEnabled} \cup ShowCdpOk

\* One record of show lldp neighbors detail, or what stands in its place.
LldpRecord(intf, host, port, ip) ==
  <<NL>> \o Lines(<<<<"Local", SP, "Intf", ":", SP>> \o intf,
                    <<"Port", SP, "id", ":", SP, port>>,
                    <<"System", SP, "Name", ":", SP, host>>,
                    <<>>,
                    Words(<<"Management", "Addresses">>) \o <<":">>,
                    <<SP, SP, SP, SP, "IP", ":", SP, ip>>>>) \o <<NL>>
LldpGi1 == LldpRecord(<<"Gi", "0/1">>, "sw1", "Gi0/2", "10.0.0.2")
LldpGi2 == LldpRecord(<<"Gi", "0/1">>, "sw2", "Gi0/3", "10.0.0.3")
LldpVlan == LldpRecord(<<"Vlan1">>, "sw3", "Gi0/4", "10.0.0.4")
\* the label is there, not at the start of a line
LldpIndented == <<NL, SP>> \o Words(<<"Local", "Intf">>) \o <<":", SP, "Te", "1/1", NL>>
\* the label is there, the name is not
LldpNoName == <<NL>> \o Words(<<"Local", "Intf">>) \o <<":", SP, NL>>
              \o <<"System", SP, "Name", ":", SP, "sw4", NL>>
LldpTotal == <<NL>> \o Words(<<"Total", "entries", "displayed">>) \o <<":", SP, "2", NL>>

\* One record of show cdp neighbors detail.
CdpRecord(intf, host, port, ip) ==
  <<NL>> \o Lines(<<<<"Device", SP, "ID", ":", SP, host>>,
                    <<SP, SP, "IP", SP, "address", ":", SP, ip>>,
                    <<"Platform", ":", SP>> \o Words(<<"cisco", "WS-C3750">>)
                      \o <<",", SP, SP, "Capabilities", ":", SP, "Switch">>,
                    <<"Interface", ":", SP>> \o intf \o <<",", SP, SP>> \o Words(<<"Port", "ID">>)
                      \o <<SP, "(">> \o Words(<<"outgoing", "port">>) \o <<")", ":", SP, port>>>>)
         \o <<NL>>
CdpGi == CdpRecord(<<"GigabitEthernet", "0/1">>, "rt1", "GigabitEthernet0/9", "10.0.9.1")
CdpGi2 == CdpRecord(<<"GigabitEthernet", "0/1">>, "rt2", "GigabitEthernet0/8", "10.0.9.2")
CdpVlan == CdpRecord(<<"Vlan1">>, "rt5", "GigabitEthernet0/6", "10.0.9.5")
CdpLo == CdpRecord(<<"Loopback0">>, "rt3", "GigabitEthernet0/7", "10.0.9.3")
CdpNoInterface == <<NL, "Device", SP, "ID", ":", SP, "rt4", NL>>

\* The segments joined by the separator line, which also opens the text.
RECURSIVE Detail(_, _)
Detail(segments, dash) ==
  IF segments = <<>> THEN <<>> ELSE <<dash>> \o Head(segments) \o Detail(Tail(segments), dash)

ShowLldpNeighborsDetail ==
  {<<>>,
   Detail(<<LldpGi1, LldpGi2, LldpVlan \o LldpTotal>>, DASH48),
   Detail(<<LldpVlan, LldpTotal, LldpGi1>>, DASH48)}

ShowCdpNeighborsDetail ==
  {<<>>,
   Detail(<<CdpGi, CdpLo, CdpGi2>>, DASH25),
   Detail(<<CdpVlan, CdpNoInterface, CdpGi>>, DASH25)}

\* The answers to the five commands that a run is checked on, in two
\* families: one wide in the interface and address texts, one wide in the
\* answers that decide the neighbor queries.
AddressRuns ==
  ShowInterfaces \X ShowIpInterface \X ShowIpv6Interface
    \X {LldpActive, LldpNotEnabled} \X {CdpActive, <<>>}

NeighborRuns ==
  {<<>>, IfGi} \X {<<>>, Ip4VlanDeleted} \X {<<>>, Ip6Vlan} \X ShowLldp \X ShowCdp

-----------------------------------------------------------------------------
(* Interfaces.populate, a step for each of its sections *)

InterfacesCOMMANDS ==
  <<"show interfaces", "show ip interface", "show ipv6 interface", "show lldp", "show cdp">>

\* any(err in data for err in errs)
AnyIn(errs, data) == \E e \in errs : Contains(data, e)

\* An error list that would lack the second marker.
lldp_errs_short == {Words(<<"Invalid", "input">>)}

lldp_errs == {Words(<<"Invalid", "input">>), Words(<<"LLDP", "is", "not", "enabled">>)}
cdp_errs == {Words(<<"CDP", "is", "not", "enabled">>)}

InitInterfaces ==
  /\ pc = "start"
  /\ exc = None
  /\ responses = <<>>
  /\ facts = EmptyDict
  /\ warnings = <<>>
  /\ issued = <<>>
  /\ answers = EmptyDict
  /\ input = <<>>
  /\ output = <<>>

\* super().populate(), and the three facts set before any parsing; runs is
\* the family of answers the device may give.
InterfacesRun(runs) ==
  /\ pc = "start"
  /\ \E r \in runs : responses' = r
  /\ issued' = issued \o InterfacesCOMMANDS
  /\ facts' = [all_ipv4_addresses |-> <<>>, all_ipv6_addresses |-> <<>>, neighbors |-> <<>>]
  /\ pc' = "interfaces"
  /\ UNCHANGED <<exc, warnings, answers, input, output>>

\* The outcome r of a section is stored: the facts as far as they were
\* written, and the exception that ended populate, if any.
Finish(r, next) ==
  /\ facts' = r.val
  /\ exc' = r.exc
  /\ pc' = IF r.exc # None THEN "raised" ELSE next

\* interfaces = self.parse_interfaces(data)
\* self.facts["interfaces"] = self.populate_interfaces(interfaces)
primary_section(fs, parsed) ==
  IF parsed.exc # None THEN Raise(parsed.exc[1], fs)
  ELSE Ok(Put(fs, "interfaces", populate_interfaces(parsed.val)))

\* data = self.parse_interfaces(data); self.populate_ipv4_interfaces(data)
ipv4_section(fs, parsed) ==
  IF parsed.exc # None THEN Raise(parsed.exc[1], fs)
  ELSE populate_ipv4_interfaces(fs, parsed.val)

\* data = self.parse_interfaces(data); self.populate_ipv6_interfaces(data)
ipv6_section(fs, parsed) ==
  IF parsed.exc # None THEN Raise(parsed.exc[1], fs)
  ELSE populate_ipv6_interfaces(fs, parsed.val)

InterfacesPrimary ==
  /\ pc = "interfaces"
  /\ IF responses[1] = <<>>
     THEN pc' = "ipv4" /\ UNCHANGED <<exc, facts>>
     ELSE Finish(primary_section(facts, parse_interfaces(responses[1])), "ipv4")
  /\ UNCHANGED <<responses, warnings, issued, answers, input, output>>

InterfacesIpv4 ==
  /\ pc = "ipv4"
  /\ IF responses[2] = <<>>
     THEN pc' = "ipv6" /\ UNCHANGED <<exc, facts>>
     ELSE Finish(ipv4_section(facts, parse_interfaces(responses[2])), "ipv6")
  /\ UNCHANGED <<responses, warnings, issued, answers, input, output>>

InterfacesIpv6 ==
  /\ pc = "ipv6"
  /\ IF responses[3] = <<>>
     THEN pc' = "lldp" /\ UNCHANGED <<exc, facts>>
     ELSE Finish(ipv6_section(facts, parse_interfaces(responses[3])), "lldp")
  /\ UNCHANGED <<responses, warnings, issued, answers, input, output>>

\* self.run([cmd]): the command is issued, and the device answers.
InterfacesLldp ==
  /\ pc = "lldp"
  /\ LET data == responses[4] IN
     IF data # <<>> /\ ~AnyIn(lldp_errs, data)
     THEN \E answer \in ShowLldpNeighborsDetail :
            LET neighbors == <<answer>> IN
            /\ issued' = Append(issued, "show lldp neighbors detail")
            /\ answers' = Put(answers, "show lldp neighbors detail", answer)
            /\ facts' = IF Len(neighbors) > 0
                        THEN [facts EXCEPT !["neighbors"] = OUpdate(@, parse_neighbors(neighbors[1]))]
                        ELSE facts
     ELSE UNCHANGED <<issued, answers, facts>>
  /\ pc' = "cdp"
  /\ UNCHANGED <<exc, responses, warnings, input, output>>

InterfacesCdp ==
  /\ pc = "cdp"
  /\ LET data == responses[5] IN
     IF data # <<>> /\ ~AnyIn(cdp_errs, data)
     THEN \E answer \in ShowCdpNeighborsDetail :
            LET cdp_neighbors == <<answer>> IN
            /\ issued' = Append(issued, "show cdp neighbors detail")
            /\ answers' = Put(answers, "show cdp neighbors detail", answer)
            /\ facts' = IF Len(cdp_neighbors) > 0
                        THEN [facts EXCEPT
                                !["neighbors"] = OUpdate(@, parse_cdp_neighbors(cdp_neighbors[1]))]
                        ELSE facts
     ELSE UNCHANGED <<issued, answers, facts>>
  /\ pc' = "done"
  /\ UNCHANGED <<exc, responses, warnings, input, output>>

NextInterfaces ==
  \/ InterfacesRun(AddressRuns)
  \/ InterfacesPrimary
  \/ InterfacesIpv4
  \/ InterfacesIpv6
  \/ InterfacesLldp
  \/ InterfacesCdp

SpecInterfaces == InitInterfaces /\ [][NextInterfaces]_vars

NextNeighbors ==
  \/ InterfacesRun(NeighborRuns)
  \/ InterfacesPrimary
  \/ InterfacesIpv4
  \/ InterfacesIpv6
  \/ InterfacesLldp
  \/ InterfacesCdp

SpecNeighbors == InitInterfaces /\ [][NextNeighbors]_vars

-----------------------------------------------------------------------------
(* Hardware *)

HardwareCOMMANDS ==
  <<"dir", "show memory statistics", "show processes cpu | include CPU utilization">>

\* a / b under "from __future__ import division": the quotient as it is,
\* whole + rem/b, not rounded.
TrueDiv(a, b) == [whole |-> a \div b, rem |-> a % b, den |-> b]

MiB == 1048576
KiB == 1024

DirectoryOf == Cat(<<Bol, Lit(<<"Directory", SP, "of", SP>>), Grp("1", Plus(Cls("S"))), Lit(<<"/">>)>>)

parse_filesystems(data) == FindAll(DirectoryOf, data, "1", TRUE)

BytesTotal ==
  Cat(<<Bol, Grp("1", Plus(Cls("d"))), Lit(<<SP, "bytes", SP, "total", SP, "(">>),
        Grp("2", Plus(Cls("d"))), Lit(<<SP, "bytes", SP, "free", ")">>)>>)

\* The two branches of the loop body of parse_filesystems_info; st is
\* [facts, fs].
directory_line(st, match) ==
  [facts |-> OSet(st.facts, Group(match, "1")[1], EmptyDict), fs |-> Group(match, "1")[1]]

bytes_line(st, match) ==
  IF match = None THEN st
  ELSE IF ~OHas(st.facts, st.fs) THEN Raise("KeyError", st.facts)
  ELSE [st EXCEPT !.facts =
          OSet(@, st.fs,
               Put(Put(OGet(@, st.fs), "spacetotal_kb", TrueDiv(ToInt(Group(match, "1")[1]), KiB)),
                   "spacefree_kb", TrueDiv(ToInt(Group(match, "2")[1]), KiB)))]

filesystems_line(st, line, match) ==
  IF match # None THEN directory_line(st, match)
  ELSE bytes_line(st, ReMatch(BytesTotal, line, FALSE))

RECURSIVE parse_filesystems_info_loop(_, _)
parse_filesystems_info_loop(lines, st) ==
  IF "exc" \in DOMAIN st THEN st
  ELSE IF lines = <<>> THEN Ok(st.facts)
  ELSE parse_filesystems_info_loop(
         Tail(lines), filesystems_line(st, Head(lines), ReMatch(DirectoryOf, Head(lines), FALSE)))

parse_filesystems_info(data) ==
  parse_filesystems_info_loop(Split(data, NL), [facts |-> <<>>, fs |-> <<>>])

regex_cpu_utilization ==
  Cat(<<Opt(Cat(<<Bol, Lit(<<"Core">>), Cls("s"), Opt(Grp("core", Plus(Cls("d")))), Lit(<<":">>)>>)),
        Alt(<<Bol, Cls("s")>>),
        Lit(<<"CPU">>), Cls("s"), Lit(<<"utilization">>), Cls("s"), Lit(<<"for">>), Cls("s"),
        Lit(<<"five">>), Cls("s"), Lit(<<"seconds", ":">>),
        Opt(Cat(<<Cls("s"), Opt(Grp("f_sec", Plus(Cls("d")))), Lit(<<"%">>)>>)),
        Opt(Cat(<<Cls("s"), Grp("f_se_nom", Plus(Cls("d"))), Lit(<<"%", "/">>),
                  Grp("f_s_denom", Plus(Cls("d"))), Lit(<<"%">>), Opt(Lit(<<")">>))>>)),
        Lit(<<";">>), Cls("s"), Lit(<<"one">>), Cls("s"), Lit(<<"minute", ":">>), Cls("s"),
        Opt(Grp("a_min", Plus(Cls("d")))), Lit(<<"%">>),
        Lit(<<";">>), Cls("s"), Lit(<<"five">>), Cls("s"), Lit(<<"minutes", ":">>), Cls("s"),
        Opt(Grp("f_min", Plus(Cls("d")))), Lit(<<"%">>)>>)

\* a or b
Either(a, b) == IF a # None THEN a ELSE b

\* The record of one matching line; int(None) raises TypeError.
cpu_record(five, match) ==
  IF five = None \/ Group(match, "a_min") = None \/ Group(match, "f_min") = None
  THEN Raise("TypeError", EmptyDict)
  ELSE Ok([five_seconds |-> ToInt(five[1]),
           one_minute |-> ToInt(Group(match, "a_min")[1]),
           five_minutes |-> ToInt(Group(match, "f_min")[1])]
          @@ (IF Group(match, "f_s_denom") # None
              THEN [five_seconds_interrupt |-> ToInt(Group(match, "f_s_denom")[1])]
              ELSE EmptyDict))

cpu_core(match) ==
  IF Group(match, "core") # None THEN <<"core_">> \o Group(match, "core")[1] ELSE <<"core">>

\* facts[_core] is set to {} before the first int() is taken.
cpu_store(fs, core, record) ==
  IF record.exc # None THEN Raise(record.exc[1], OSet(fs, core, EmptyDict))
  ELSE Ok(OSet(fs, core, record.val))

cpu_line(fs, match) ==
  IF match = None THEN Ok(fs)
  ELSE cpu_store(fs, cpu_core(match),
                 cpu_record(Either(Group(match, "f_se_nom"), Group(match, "f_sec")), match))

RECURSIVE parse_cpu_utilization_loop(_, _)
parse_cpu_utilization_loop(lines, r) ==
  IF r.exc # None \/ lines = <<>> THEN r
  ELSE parse_cpu_utilization_loop(
         Tail(lines), cpu_line(r.val, ReMatch(regex_cpu_utilization, Head(lines), FALSE)))

parse_cpu_utilization(data) == parse_cpu_utilization_loop(Split(data, NL), Ok(<<>>))

Processor ==
  Cat(<<Lit(<<"Processor">>), Plus(Cls("s")),
        Grp("1", Alt(<<Plus(Cls("S")), Plus(Cls("d"))>>)), Plus(Cls("s")),
        Grp("total", Plus(Cls("d"))), Plus(Cls("s")), Plus(Cls("d")), Plus(Cls("s")),
        Grp("free", Plus(Cls("d")))>>)

memory_line(fs, match) ==
  IF match = None THEN fs
  ELSE Put(Put(fs, "memtotal_mb", TrueDiv(ToInt(Group(match, "total")[1]), MiB)),
           "memfree_mb", TrueDiv(ToInt(Group(match, "free")[1]), MiB))

RECURSIVE memory_lines(_, _)
memory_lines(fs, lines) ==
  IF lines = <<>> THEN fs
  ELSE memory_lines(memory_line(fs, ReMatch(Processor, Head(lines), FALSE)), Tail(lines))

(* Device output for Hardware *)

MaxMiB == 2
MaxKiB == 2

\* Byte counts on and around the multiples of a unit.
ByteCounts(unit, max) ==
  {u * unit + r : u \in 0..max, r \in {0, 1, unit - 1}}

DirListing(fs, total, free) ==
  Lines(<<Words(<<"Directory", "of">>) \o <<SP>> \o fs \o <<"/">>,
          <<>>,
          <<SP, SP, SP, "2", SP, SP, "-rw-", SP, SP, "flash.bin">>,
          <<>>,
          Dec(total) \o <<SP>> \o Words(<<"bytes", "total">>) \o <<SP, "(">> \o Dec(free)
            \o <<SP>> \o Words(<<"bytes", "free">>) \o <<")">>>>)

\* the size line with no directory line before it
DirNoDirectory ==
  Dec(2048) \o <<SP>> \o Words(<<"bytes", "total">>) \o <<SP, "(">> \o Dec(1024)
    \o <<SP>> \o Words(<<"bytes", "free">>) \o <<")">>

Dir ==
  {<<>>, DirNoDirectory}
    \cup {DirListing(<<"flash", ":">>, t, t \div 2) : t \in ByteCounts(KiB, MaxKiB)}
    \cup {Lines(<<DirListing(<<"flash", ":">>, 2 * KiB, KiB), <<>>,
                  DirListing(<<"nvram", ":">>, t, 0)>>) : t \in ByteCounts(KiB, MaxKiB)}

MemoryStatistics(total, free) ==
  Lines(<<<<SP, SP>> \o Words(<<"Head", "Total(b)", "Used(b)", "Free(b)">>),
          <<"Processor", SP, SP, "7F2A", SP, SP>> \o Dec(total) \o <<SP, SP>>
            \o Dec(total - free) \o <<SP, SP>> \o Dec(free) \o <<SP, SP>> \o Dec(free),
          <<SP, SP, SP, SP, SP, SP, "I/O", SP, SP, "E8A0", SP, SP>> \o Dec(100) \o <<SP, SP>>
            \o Dec(50) \o <<SP, SP>> \o Dec(50)>>)

ShowMemoryStatistics ==
  {<<>>, InvalidInput}
    \cup {MemoryStatistics(t, t \div 2) : t \in ByteCounts(MiB, MaxMiB)}

CpuLine(five, one, fivemin) ==
  Words(<<"CPU", "utilization", "for", "five", "seconds">>) \o <<":", SP>> \o five
    \o <<";", SP>> \o Words(<<"one", "minute">>) \o <<":", SP>> \o one
    \o <<";", SP>> \o Words(<<"five", "minutes">>) \o <<":", SP>> \o fivemin

ShowProcessesCpu ==
  {<<>>,
   CpuLine(<<"5", "%", "/", "0", "%">>, <<"3", "%">>, <<"2", "%">>),
   Lines(<<<<"Core", SP, "0", ":", SP>> \o CpuLine(<<"2", "%">>, <<"1", "%">>, <<"1", "%">>),
           <<"Core", SP, "1", ":", SP>> \o CpuLine(<<"4", "%">>, <<"1", "0", "%">>, <<"7", "%">>)>>),
   CpuLine(<<"%">>, <<"3", "%">>, <<"2", "%">>)}

(* Hardware.populate, a step for each of its sections *)

InitHardware ==
  /\ pc = "start"
  /\ exc = None
  /\ responses = <<>>
  /\ facts = EmptyDict
  /\ warnings = <<>>
  /\ issued = <<>>
  /\ answers = EmptyDict
  /\ input = <<>>
  /\ output = <<>>

HardwareRun ==
  /\ pc = "start"
  /\ \E r \in Dir \X ShowMemoryStatistics \X ShowProcessesCpu : responses' = r
  /\ issued' = issued \o HardwareCOMMANDS
  /\ pc' = "filesystems"
  /\ UNCHANGED <<exc, facts, warnings, answers, input, output>>

\* self.facts["filesystems"] = ...; self.facts["filesystems_info"] = ...
filesystems_section(fs, data, info) ==
  IF info.exc # None THEN Raise(info.exc[1], Put(fs, "filesystems", parse_filesystems(data)))
  ELSE Ok(Put(Put(fs, "filesystems", parse_filesystems(data)), "filesystems_info", info.val))

HardwareFilesystems ==
  /\ pc = "filesystems"
  /\ IF responses[1] = <<>>
     THEN pc' = "cpu" /\ UNCHANGED <<exc, facts>>
     ELSE Finish(filesystems_section(facts, responses[1], parse_filesystems_info(responses[1])),
                 "cpu")
  /\ UNCHANGED <<responses, warnings, issued, answers, input, output>>

cpu_section(fs, cpu) ==
  IF cpu.exc # None THEN Raise(cpu.exc[1], fs) ELSE Ok(Put(fs, "cpu_utilization", cpu.val))

HardwareCpu ==
  /\ pc = "cpu"
  /\ Finish(cpu_section(facts, parse_cpu_utilization(responses[3])), "memory")
  /\ UNCHANGED <<responses, warnings, issued, answers, input, output>>

HardwareMemory ==
  /\ pc = "memory"
  /\ IF responses[2] = <<>>
     THEN UNCHANGED <<facts, warnings>>
     ELSE IF Contains(responses[2], Words(<<"Invalid", "input", "detected">>))
     THEN /\ warnings' = Append(warnings, "Unable to gather memory statistics")
          /\ UNCHANGED facts
     ELSE /\ facts' = memory_lines(facts, SplitLines(responses[2]))
          /\ UNCHANGED warnings
  /\ pc' = "done"
  /\ UNCHANGED <<exc, responses, issued, answers, input, output>>

NextHardware ==
  \/ HardwareRun
  \/ HardwareFilesystems
  \/ HardwareCpu
  \/ HardwareMemory

SpecHardware == InitHardware /\ [][NextHardware]_vars

-----------------------------------------------------------------------------
(* Config *)

ConfigCOMMANDS == <<"show running-config">>

\* The indentation of the second line of the pattern, which is part of the
\* pattern: it is compiled without re.VERBOSE.
BannerIndent == 16

\* r"""^Building configuration
\*                 ...\s+Current configuration : \d+ bytes\n"""
BannerPattern ==
  Cat(<<Bol, Lit(<<"Building", SP, "configuration", NL>> \o [n \in 1..BannerIndent |-> SP]),
        Dot, Dot, Dot, Plus(Cls("s")),
        Lit(<<"Current", SP, "configuration", SP, ":", SP>>), Plus(Cls("d")),
        Lit(<<SP, "bytes", NL>>)>>)

(* Device output for Config *)

\* The banner as a device prints it.
Banner(bytes) ==
  <<"Building", SP, "configuration", ".", ".", ".", NL, NL>>
    \o <<"Current", SP, "configuration", SP, ":", SP>> \o Dec(bytes) \o <<SP, "bytes", NL>>

\* A text that the pattern as written matches.
IndentedBanner(bytes) ==
  <<"Building", SP, "configuration", NL>> \o [n \in 1..BannerIndent |-> SP]
    \o <<".", ".", ".", NL>>
    \o <<"Current", SP, "configuration", SP, ":", SP>> \o Dec(bytes) \o <<SP, "bytes", NL>>

ConfigChunks ==
  <<<<"!", NL>>,
    <<NL>>,
    <<"hostname", SP, "R1", NL>>,
    Words(<<"interface", "GigabitEthernet0/1">>) \o <<NL, SP>>
      \o Words(<<"ip", "address", "dhcp">>) \o <<NL>>,
    Banner(73),
    IndentedBanner(73)>>

MaxChunks == 2

\* The texts of up to n chunks.
RECURSIVE ChunkTexts(_)
ChunkTexts(n) ==
  IF n = 0 THEN {<<>>}
  ELSE ChunkTexts(n - 1)
       \cup {t \o ConfigChunks[c] : t \in ChunkTexts(n - 1), c \in 1..Len(ConfigChunks)}

ShowRunningConfig ==
  ChunkTexts(MaxChunks)
    \cup {Banner(1042) \o t : t \in ChunkTexts(MaxChunks)}
    \cup {IndentedBanner(1042) \o t : t \in ChunkTexts(MaxChunks)}

InitConfig ==
  /\ pc = "start"
  /\ exc = None
  /\ responses = <<>>
  /\ facts = EmptyDict
  /\ warnings = <<>>
  /\ issued = <<>>
  /\ answers = EmptyDict
  /\ input = <<>>
  /\ output = <<>>

ConfigRun ==
  /\ pc = "start"
  /\ \E data \in ShowRunningConfig : responses' = <<data>>
  /\ issued' = issued \o ConfigCOMMANDS
  /\ pc' = "config"
  /\ UNCHANGED <<exc, facts, warnings, answers, input, output>>

ConfigPopulate ==
  /\ pc = "config"
  /\ facts' = IF responses[1] # <<>>
              THEN Put(facts, "config", ReSubEmpty(BannerPattern, responses[1], TRUE))
              ELSE facts
  /\ pc' = "done"
  /\ UNCHANGED <<exc, responses, warnings, issued, answers, input, output>>

NextConfig ==
  \/ ConfigRun
  \/ ConfigPopulate

SpecConfig == InitConfig /\ [][NextConfig]_vars

-----------------------------------------------------------------------------
(* parse_interfaces and parse_neighbors, each called on a text of its own *)

\* Lines of the kinds parse_interfaces tells apart.
ParseLines ==
  <<<<"Gi0/1", SP, "line", SP, "one">>,
    <<"Vlan1">>,
    <<SP, SP, "continuation">>,
    <<SP, "MTU", SP, "1500">>,
    <<TAB, "tabbed">>,
    <<>>>>

MaxLines == 3

\* The sequences of 1 to n lines.
RECURSIVE LineSeqs(_)
LineSeqs(n) ==
  IF n = 0 THEN {<<>>}
  ELSE LineSeqs(n - 1)
       \cup {Append(ls, ParseLines[l]) : ls \in LineSeqs(n - 1), l \in 1..Len(ParseLines)}

ParseTexts == {Lines(ls) : ls \in LineSeqs(MaxLines) \ {<<>>}} \cup {InvalidInput}

\* What a call leaves: its outcome, and the exception if it raised.
Return(r) ==
  /\ output' = r
  /\ exc' = r.exc
  /\ pc' = "returned"

InitParse ==
  /\ pc = "call"
  /\ exc = None
  /\ responses = <<>>
  /\ facts = EmptyDict
  /\ warnings = <<>>
  /\ issued = <<>>
  /\ answers = EmptyDict
  /\ input \in ParseTexts
  /\ output = <<>>

ParseInterfacesCall ==
  /\ pc = "call"
  /\ Return(parse_interfaces(input))
  /\ UNCHANGED <<responses, facts, warnings, issued, answers, input>>

NextParse == ParseInterfacesCall

SpecParse == InitParse /\ [][NextParse]_vars

\* The segments that show lldp neighbors detail is made of here.
LldpSegments == <<LldpGi1, LldpGi2, LldpVlan, LldpIndented, LldpNoName, LldpTotal>>

MaxSegs == 3

RECURSIVE SegmentSeqs(_)
SegmentSeqs(n) ==
  IF n = 0 THEN {<<>>}
  ELSE SegmentSeqs(n - 1)
       \cup {Append(ss, LldpSegments[g]) : ss \in SegmentSeqs(n - 1), g \in 1..Len(LldpSegments)}

LldpTexts == {Detail(ss, DASH48) : ss \in SegmentSeqs(MaxSegs)}

InitLldp ==
  /\ pc = "call"
  /\ exc = None
  /\ responses = <<>>
  /\ facts = EmptyDict
  /\ warnings = <<>>
  /\ issued = <<>>
  /\ answers = EmptyDict
  /\ input \in LldpTexts
  /\ output = <<>>

ParseNeighborsCall ==
  /\ pc = "call"
  /\ Return(Ok(parse_neighbors(input)))
  /\ UNCHANGED <<responses, facts, warnings, issued, answers, input>>

NextLldp == ParseNeighborsCall

SpecLldp == InitLldp /\ [][NextLldp]_vars

-----------------------------------------------------------------------------
(* Properties of Interfaces.populate *)

Done == pc = "done"
Raised == pc = "raised"

LldpDetail == "show lldp neighbors detail"
CdpDetail == "show cdp neighbors detail"
WasIssued(cmd) == \E n \in 1..Len(issued) : issued[n] = cmd

\* The blocks of a response, as the pass that reads it sees them.
BlocksOf(data) == IF data = <<>> THEN <<>> ELSE parse_interfaces(data).val

\* Every base response is empty text or well-formed text of its command.
EmptyOrWellFormed ==
  /\ responses # <<>>
  /\ responses[1] \in {<<>>} \cup ShowInterfacesOk
  /\ responses[2] \in {<<>>} \cup ShowIpInterfaceOk
  /\ responses[3] \in {<<>>} \cup ShowIpv6InterfaceOk
  /\ responses[4] \in {<<>>} \cup ShowLldpOk \cup {LldpNotEnabled}
  /\ responses[5] \in {<<>>} \cup ShowCdpOk

\* C1: with every base response empty or well-formed, populate does not end
\* in an exception.
C1_ToleratesFailedCommands == EmptyOrWellFormed => ~Raised

\* What each protocol reported in the run: the parse of the answer to its
\* detail command, if the command was issued.
LldpParse == IF WasIssued(LldpDetail) THEN parse_neighbors(answers[LldpDetail]) ELSE <<>>
CdpParse == IF WasIssued(CdpDetail) THEN parse_cdp_neighbors(answers[CdpDetail]) ELSE <<>>

\* C4: after populate, a key reported by the CDP parse holds the CDP entry
\* list alone, a key reported by the LLDP parse only holds the LLDP entry
\* list, and there is no other key.
C4_CdpOverwritesLldp ==
  Done =>
    /\ OKeys(facts["neighbors"]) = OKeys(LldpParse) \cup OKeys(CdpParse)
    /\ \A key \in OKeys(CdpParse) : OGet(facts["neighbors"], key) = OGet(CdpParse, key)
    /\ \A key \in OKeys(LldpParse) \ OKeys(CdpParse) :
         OGet(facts["neighbors"], key) = OGet(LldpParse, key)

\* A finished run in which both protocols report one key with different
\* entries, and each reports a key of its own.
C4_Witness ==
  /\ Done
  /\ \E key \in OKeys(LldpParse) \cap OKeys(CdpParse) :
       OGet(LldpParse, key) # OGet(CdpParse, key)
  /\ OKeys(LldpParse) \ OKeys(CdpParse) # {}
  /\ OKeys(CdpParse) \ OKeys(LldpParse) # {}

\* C8: a detail command is issued only when the base response is non-empty
\* and free of the error markers of its protocol; with neither issued, a
\* finished run has no neighbors.
C8_ConditionalNeighborQueries ==
  /\ WasIssued(LldpDetail) =>
       /\ responses[4] # <<>>
       /\ ~Contains(responses[4], Words(<<"Invalid", "input">>))
       /\ ~Contains(responses[4], Words(<<"LLDP", "is", "not", "enabled">>))
  /\ WasIssued(CdpDetail) =>
       /\ responses[5] # <<>>
       /\ ~Contains(responses[5], Words(<<"CDP", "is", "not", "enabled">>))
  /\ (Done /\ ~WasIssued(LldpDetail) /\ ~WasIssued(CdpDetail)) => facts["neighbors"] = <<>>

\* A finished run that asked for the CDP detail and, LLDP being reported as
\* not enabled, not for the LLDP detail.
C8_Witness ==
  /\ Done
  /\ responses[4] = LldpNotEnabled
  /\ ~WasIssued(LldpDetail)
  /\ WasIssued(CdpDetail)
  /\ facts["neighbors"] # <<>>

\* The attributes the primary parse sets.
PrimaryAttributes ==
  {"description", "macaddress", "mtu", "bandwidth", "mediatype", "duplex",
   "lineprotocol", "operstatus", "type"}

\* The block that created the record of key: the show ip interface block of
\* that name, or else the show ipv6 interface one.
CreatingBlock(key) ==
  IF OHas(BlocksOf(responses[2]), key) THEN OGet(BlocksOf(responses[2]), key)
  ELSE OGet(BlocksOf(responses[3]), key)

\* The status line of a block reads "<name> is deleted, ...".
ReadsDeleted(block) == Contains(Split(block, NL)[1], <<SP, "is", SP, "deleted", ",">>)

LazyKeys == OKeys(facts["interfaces"]) \ OKeys(BlocksOf(responses[1]))

\* C9: after populate, with a records mapping from show interfaces, a record
\* of a name that is not in show interfaces holds the address lists and,
\* exactly when the status line of the block that created it reads
\* "deleted", operstatus = "deleted", and nothing else; a record of a name
\* that is in show interfaces holds every attribute as the primary parse set
\* it.
C9_LazyRecords ==
  (Done /\ "interfaces" \in DOMAIN facts) =>
    /\ \A key \in LazyKeys :
         LET record == OGet(facts["interfaces"], key) IN
         /\ DOMAIN record \subseteq {"ipv4", "ipv6", "operstatus"}
         /\ DOMAIN record \cap {"ipv4", "ipv6"} # {}
         /\ "operstatus" \in DOMAIN record <=> ReadsDeleted(CreatingBlock(key))
         /\ "operstatus" \in DOMAIN record => record["operstatus"] = Some(<<"deleted">>)
    /\ \A key \in OKeys(BlocksOf(responses[1])) :
         LET record == OGet(facts["interfaces"], key)
             primary == interface_record(OGet(BlocksOf(responses[1]), key))
         IN /\ PrimaryAttributes \subseteq DOMAIN record
            /\ \A a \in PrimaryAttributes : record[a] = primary[a]

\* A finished run with a record from show interfaces, a record created by
\* an address pass from a deleted block and one created from a block that is
\* not deleted.
C9_Witness ==
  /\ Done
  /\ "interfaces" \in DOMAIN facts
  /\ OKeys(BlocksOf(responses[1])) # {}
  /\ \E key \in LazyKeys : "operstatus" \in DOMAIN OGet(facts["interfaces"], key)
  /\ \E key \in LazyKeys : "operstatus" \notin DOMAIN OGet(facts["interfaces"], key)

\* Two sequences with the same elements, each as many times.
Occurrences(seq, x) == Cardinality({n \in 1..Len(seq) : seq[n] = x})
SameMultiset(a, b) ==
  /\ Len(a) = Len(b)
  /\ \A n \in 1..Len(a) : Occurrences(a, a[n]) = Occurrences(b, a[n])

RECURSIVE AddressFields(_, _)
AddressFields(records, family) ==
  IF records = <<>> THEN <<>>
  ELSE (IF family \in DOMAIN Head(records).v
        THEN [n \in 1..Len(Head(records).v[family]) |-> Head(records).v[family][n].address]
        ELSE <<>>) \o AddressFields(Tail(records), family)

RecordsOf(fs) == IF "interfaces" \in DOMAIN fs THEN fs["interfaces"] ELSE <<>>

NoPrimaryAddress(block) == ~Contains(block, Words(<<"Internet", "address", "is">>))

\* C10: after populate, all_ipv4_addresses and the address fields of the
\* ipv4 lists of the records are the same multiset, likewise for ipv6, and a
\* show ip interface block with no "Internet address is" line leaves the
\* ipv4 list of its record empty.
C10_AddressListsAgree ==
  Done =>
    /\ SameMultiset(facts["all_ipv4_addresses"], AddressFields(RecordsOf(facts), "ipv4"))
    /\ SameMultiset(facts["all_ipv6_addresses"], AddressFields(RecordsOf(facts), "ipv6"))
    /\ \A n \in 1..Len(BlocksOf(responses[2])) :
         NoPrimaryAddress(BlocksOf(responses[2])[n].v) =>
           OGet(facts["interfaces"], BlocksOf(responses[2])[n].k)["ipv4"] = <<>>

\* A finished run with addresses of both families and a block that has a
\* secondary address and no primary one.
C10_Witness ==
  /\ Done
  /\ facts["all_ipv6_addresses"] # <<>>
  /\ facts["all_ipv4_addresses"] # <<>>
  /\ \E n \in 1..Len(BlocksOf(responses[2])) :
       /\ NoPrimaryAddress(BlocksOf(responses[2])[n].v)
       /\ Contains(BlocksOf(responses[2])[n].v, Words(<<"Secondary", "address">>))

-----------------------------------------------------------------------------
(* Properties of Hardware.populate *)

\* The value is the integer floor(bytes / unit): nothing is left over.
IsFloor(x) == x.rem = 0

\* C6: after populate, memtotal_mb and memfree_mb are floor(bytes / 1048576)
\* and spacetotal_kb and spacefree_kb are floor(bytes / 1024).
C6_TruncatingDivision ==
  Done =>
    /\ \A key \in {"memtotal_mb", "memfree_mb"} \cap DOMAIN facts : IsFloor(facts[key])
    /\ "filesystems_info" \in DOMAIN facts =>
         \A n \in 1..Len(facts["filesystems_info"]) :
           \A key \in DOMAIN facts["filesystems_info"][n].v :
             IsFloor(facts["filesystems_info"][n].v[key])

-----------------------------------------------------------------------------
(* Properties of Config.populate *)

StartsWith(s, p) == Len(s) >= Len(p) /\ SubSeq(s, 1, Len(p)) = p

\* C7: a text that starts with the banner is stored without that banner,
\* the rest as it is.
C7_StripsLeadingBanner ==
  (Done /\ StartsWith(responses[1], Banner(1042))) =>
    facts["config"] = SubSeq(responses[1], Len(Banner(1042)) + 1, Len(responses[1]))

-----------------------------------------------------------------------------
(* Properties of parse_interfaces *)

Returned == pc = "returned"

\* C2: parse_interfaces returns, whatever the text.
C2_NeverRaises == Returned => output.exc = None

\* One key line, then lines that are empty or indented.
KeyThenContinuations(lines) ==
  /\ Head(lines) # <<>>
  /\ ~IsSpace(Head(lines)[1])
  /\ \A n \in 2..Len(lines) : lines[n] = <<>> \/ lines[n][1] \in {SP, TAB}

RECURSIVE FirstToken(_)
FirstToken(line) ==
  IF line = <<>> \/ IsSpace(Head(line)) THEN <<>> ELSE <<Head(line)>> \o FirstToken(Tail(line))

BeginsWithSpace(line) == line # <<>> /\ line[1] = SP

\* What the lines after the key line add when each line that begins with a
\* space is appended as it is, and no other line.
RECURSIVE AppendedVerbatim(_)
AppendedVerbatim(lines) ==
  IF lines = <<>> THEN <<>>
  ELSE (IF BeginsWithSpace(Head(lines)) THEN <<NL>> \o Head(lines) ELSE <<>>)
       \o AppendedVerbatim(Tail(lines))

\* What they add when each continuation line is appended without its
\* leading white space.
RECURSIVE AppendedStripped(_)
AppendedStripped(lines) ==
  IF lines = <<>> THEN <<>>
  ELSE (IF Head(lines) # <<>> THEN <<NL>> \o LStrip(Head(lines)) ELSE <<>>)
       \o AppendedStripped(Tail(lines))

OneBlock(lines, appended) ==
  Ok(<<[k |-> FirstToken(Head(lines)), v |-> Head(lines) \o appended]>>)

\* C5, as the code has it: a key line followed by empty or indented lines
\* gives one block under the first token of the key line, whose text is the
\* key line followed, for each later line that begins with a space, by a
\* newline and that line as it is, leading white space included; an empty
\* line and a line that begins with a tab add nothing.
C5_ContinuationsVerbatim ==
  (Returned /\ KeyThenContinuations(Split(input, NL))) =>
    output = OneBlock(Split(input, NL), AppendedVerbatim(Tail(Split(input, NL))))

\* C5, as it is stated: each continuation line is appended without its
\* leading white space.
C5_ContinuationsStripped ==
  (Returned /\ KeyThenContinuations(Split(input, NL))) =>
    output = OneBlock(Split(input, NL), AppendedStripped(Tail(Split(input, NL))))

\* A call on a key line, an empty line and a continuation line.
C5_Witness ==
  /\ Returned
  /\ KeyThenContinuations(Split(input, NL))
  /\ Len(Split(input, NL)) = 3
  /\ Split(input, NL)[2] = <<>>
  /\ BeginsWithSpace(Split(input, NL)[3])
  /\ output.exc = None
  /\ Len(output.val) = 1

-----------------------------------------------------------------------------
(* Properties of parse_neighbors *)

NonEmpty(seqs) == SelectSeq(seqs, LAMBDA x : x # <<>>)

\* The non-empty segments of the text.
Segments == NonEmpty(Split(input, DASH48))

LocalIntfLabel == <<"Local", SP, "Intf", ":", SP>>

\* The lines of a segment that start with the label and go on with a name.
LocalIntfLines(seg) ==
  SelectSeq(Split(seg, NL),
            LAMBDA line : Len(line) > Len(LocalIntfLabel) /\ StartsWith(line, LocalIntfLabel))

HasLocalIntf(seg) == LocalIntfLines(seg) # <<>>

LocalIntf(seg) == SubSeq(LocalIntfLines(seg)[1], Len(LocalIntfLabel) + 1, Len(LocalIntfLines(seg)[1]))

\* The segments before the first one that lacks the label.
Preceding(segs) ==
  SubSeq(segs, 1, Cardinality({n \in 1..Len(segs) : \A m \in 1..n : HasLocalIntf(segs[m])}))

LldpKey(seg) == normalize_interface(LocalIntf(seg))

LldpFact(seg) ==
  [host |-> parse_lldp_host(seg), port |-> parse_lldp_port(seg), ip |-> parse_lldp_ip(seg)]

FactsUnder(segs, key) ==
  LET under == SelectSeq(segs, LAMBDA seg : LldpKey(seg) = key)
  IN [n \in 1..Len(under) |-> LldpFact(under[n])]

FirstIndex(segs, key) == CHOOSE n \in 1..Len(segs) :
                           /\ LldpKey(segs[n]) = key
                           /\ \A m \in 1..(n - 1) : LldpKey(segs[m]) # key

\* C3: parse_neighbors returns the records of the segments that precede the
\* first segment with no line "Local Intf: <name>", each under its normalized
\* interface name, in the order of the segments, and nothing else.
C3_EarlyTruncation ==
  Returned =>
    LET kept == Preceding(Segments) IN
    /\ OKeys(output.val) = {LldpKey(kept[n]) : n \in 1..Len(kept)}
    /\ Len(output.val) = Cardinality(OKeys(output.val))
    /\ \A n \in 1..Len(output.val) : output.val[n].v = FactsUnder(kept, output.val[n].k)
    /\ \A n, m \in 1..Len(output.val) :
         n < m => FirstIndex(kept, output.val[n].k) < FirstIndex(kept, output.val[m].k)

\* A call on three segments of which the second lacks the label: one record
\* is returned.
C3_Witness ==
  /\ Returned
  /\ Len(Segments) = 3
  /\ HasLocalIntf(Segments[1])
  /\ ~HasLocalIntf(Segments[2])
  /\ HasLocalIntf(Segments[3])
  /\ Len(output.val) = 1
  /\ Len(output.val[1].v) = 1

====
